---- MODULE Spec2Model ----
(***************************************************************************)
(* Model of mathics/builtin/numbertheory.py: the number-theoretic builtins *)
(* (PowerMod, Mod, Quotient, FactorInteger, IntegerExponent, PrimePowerQ,  *)
(* NextPrime, RandomPrime) and the digit engine (RealDigits with its       *)
(* helpers).                                                               *)
(*                                                                         *)
(* Every builtin is a pure function of its arguments: one evaluation is    *)
(* one action, which draws the arguments from bounded sets, runs the whole *)
(* apply method and records the call and its outcome.  An outcome is the   *)
(* message issued through evaluation.message (if any) together with the    *)
(* returned expression.  The two unbounded loops, the while loops of       *)
(* IntegerExponent.apply and of convert_repeating_decimal, are run one     *)
(* step at a time, with their local variables in frame.                    *)
(***************************************************************************)
EXTENDS Integers, Sequences, FiniteSets, TLC

VARIABLES pc, call, ret, frame

vars == <<pc, call, ret, frame>>

----------------------------------------------------------------------------
(* Bounds of the explored argument space.                                  *)

\* integer arguments of Mod and Quotient range over -MaxInt..MaxInt
MaxInt == 7
\* PowerMod: base and modulus in -MaxMod..MaxMod, exponent in -MaxPow..MaxPow
MaxMod == 10
MaxPow == 3

\* RealDigits: values in -MaxNeg..MaxVal, bases in MinBase..MaxBase,
\* lengths in -1..MaxLen, start positions in -MaxPosn..MaxPosn
MaxVal == 101
MaxNeg == 4
MinBase == 0
MaxBase == 10
MaxLen == 3
MaxPosn == 2
\* inexact values: at most MaxApprox digits extracted, in base ApproxBase
MaxApprox == 3
\* rationals p/q in lowest terms: |p| <= MaxNum, 2 <= q <= MaxDen, in bases
\* 2..MaxRatBase
MaxNum == 25
MaxDen == 14
MaxRatBase == 10
\* FactorInteger: integers in -MaxNeg..MaxFac
MaxFac == 64
\* IntegerExponent: n in -MaxExpN..MaxExpN, b in -MaxExpBase..MaxExpBase;
\* result is counted up to MaxResult, which stands for every larger value
MaxExpN == 40
MaxExpBase == 6
MaxResult == 7
\* PrimePowerQ: integers in -MaxPrimePower..MaxPrimePower
MaxPrimePower == 50
\* NextPrime: n in -2..MaxPrimeN in steps of 1/2, k in -MaxSteps..MaxSteps
MaxPrimeN == 30
MaxSteps == 5
\* RandomPrime: interval ends in 0..MaxPrimeHi, counts in -1..MaxCount
MaxPrimeHi == 12
MaxCount == 2
\* convert_repeating_decimal called on its own: numerators in
\* 0..MaxDividend, denominators in 1..MaxDivisor, bases in 2..MaxRadix
MaxDividend == 12
MaxDivisor == 9
MaxRadix == 10

Ints == -MaxInt..MaxInt
ModInts == -MaxMod..MaxMod
PowInts == -MaxPow..MaxPow
Values == -MaxNeg..MaxVal
Bases == MinBase..MaxBase
Lengths == -1..MaxLen
Positions == -MaxPosn..MaxPosn
\* Rational values: sympy keeps them reduced, with a denominator above 1
Rationals ==
    {pq \in ((-MaxNum)..MaxNum) \X (2..MaxDen) :
        /\ pq[1] # 0
        /\ \A d \in 2..MaxDen : ~(pq[1] % d = 0 /\ pq[2] % d = 0)}
RatBases == 2..MaxRatBase
FacInts == -MaxNeg..MaxFac
ExpInts == -MaxExpN..MaxExpN
ExpBases == -MaxExpBase..MaxExpBase
PrimePowerInts == -MaxPrimePower..MaxPrimePower
\* a NumericQ argument n is held as 2 * n, so that halves are integers
TwiceNumerics == -4..(2 * MaxPrimeN)
Steps == -MaxSteps..MaxSteps
Dividends == 0..MaxDividend
Divisors == 1..MaxDivisor
Radixes == 2..MaxRadix
\* the lists of one or two integers
Intervals ==
    {<<x>> : x \in 0..MaxPrimeHi}
        \cup {<<x, y>> : x \in 0..MaxPrimeHi, y \in 0..MaxPrimeHi}
ApproxDigits == UNION {[1..k -> 0..1] : k \in 0..MaxApprox}

----------------------------------------------------------------------------
(* Python integer arithmetic.                                              *)

Abs(x) == IF x < 0 THEN -x ELSE x

\* Python's a // b on integers: the floor of a / b, for either sign of b.
PyFloorDiv(a, b) == IF b > 0 THEN a \div b ELSE (-a) \div (-b)

\* Python's a % b on integers: the result has the sign of b.
PyMod(a, b) == IF b > 0 THEN a % b ELSE -((-a) % (-b))

\* Python's three-argument pow(a, b, m) for b >= 0 and m # 0: a^b reduced
\* modulo m after every multiplication.
RECURSIVE PyPow(_, _, _)
PyPow(a, b, m) == IF b = 0 THEN PyMod(1, m) ELSE PyMod(a * PyPow(a, b - 1, m), m)

----------------------------------------------------------------------------
(* Outcomes.  msg is the message issued (<<>> when none), kind the type of *)
(* the returned expression ("None" for a bare return, which leaves the     *)
(* call unevaluated).                                                      *)

NoMsg == <<>>

Outcome(msg, kind, val) == [msg |-> msg, kind |-> kind, val |-> val,
                            list |-> <<>>, tail |-> <<>>, exp |-> 0,
                            factors |-> <<>>, route |-> "apply"]

IntegerResult(v) == Outcome(NoMsg, "Integer", v)

----------------------------------------------------------------------------
(* sympy.invert(a, m) on integers: the extended Euclidean algorithm over   *)
(* ZZ; raises NotInvertible unless the gcd is one.                         *)

\* the loop of igcdex on non-negative a, b: st = <<a, b, r, s, x, y>>
RECURSIVE igcdex_loop(_)
igcdex_loop(st) ==
    IF st[2] = 0 THEN st
    ELSE LET c == PyMod(st[1], st[2])
             q == PyFloorDiv(st[1], st[2])
         IN igcdex_loop(<<st[2], c, st[5] - q * st[3], st[6] - q * st[4],
                          st[3], st[4]>>)

\* igcdex(a, b) = <<x, y, g>> with x*a + y*b = g = gcd(a, b)
igcdex(a, b) ==
    IF a = 0 /\ b = 0 THEN <<0, 1, 0>>
    ELSE IF a = 0 THEN <<0, PyFloorDiv(b, Abs(b)), Abs(b)>>
    ELSE IF b = 0 THEN <<PyFloorDiv(a, Abs(a)), 0, Abs(a)>>
    ELSE LET x_sign == IF a < 0 THEN -1 ELSE 1
             y_sign == IF b < 0 THEN -1 ELSE 1
             st == igcdex_loop(<<Abs(a), Abs(b), 0, 1, 1, 0>>)
         IN <<st[5] * x_sign, st[6] * y_sign, st[1]>>

\* [ok |-> FALSE] stands for the NotInvertible exception
invert_unchecked(a, m) == [ok |-> TRUE, v |-> PyMod(igcdex(a, m)[1], m)]

invert(a, m) ==
    LET e == igcdex(a, m)
    IN IF e[3] = 1 THEN [ok |-> TRUE, v |-> PyMod(e[1], m)]
       ELSE [ok |-> FALSE, v |-> 0]

----------------------------------------------------------------------------
(* PowerMod.apply                                                          *)

\* the exponent is negated but the base is not inverted
PowerMod_apply_noinvert(a, b, m) ==
    IF m = 0 THEN Outcome(<<"divz", m>>, "None", 0)
    ELSE IF b < 0
         THEN IF invert(a, m).ok THEN IntegerResult(PyPow(a, -b, m))
              ELSE Outcome(<<"ninv", a, m>>, "None", 0)
         ELSE IntegerResult(PyPow(a, b, m))

PowerMod_apply(a, b, m) ==
    IF m = 0 THEN Outcome(<<"divz", m>>, "None", 0)
    ELSE IF b < 0
         THEN LET inv == invert(a, m)
              IN IF inv.ok THEN IntegerResult(PyPow(inv.v, -b, m))
                 ELSE Outcome(<<"ninv", a, m>>, "None", 0)
         ELSE IntegerResult(PyPow(a, b, m))

(* Mod.apply                                                               *)
\* the remainder taken non-negative whatever the sign of m
Mod_apply_nonneg(n, m) ==
    IF m = 0 THEN Outcome(<<"divz", m>>, "None", 0)
    ELSE IntegerResult(n % Abs(m))

Mod_apply(n, m) ==
    IF m = 0 THEN Outcome(<<"divz", m>>, "None", 0)
    ELSE IntegerResult(PyMod(n, m))

(* Quotient.apply                                                          *)
\* the quotient rounded towards zero
Quotient_apply_trunc(m, n) ==
    IF n = 0 THEN Outcome(<<"infy", m, n>>, "ComplexInfinity", 0)
    ELSE IntegerResult(IF (m >= 0) = (n > 0) THEN Abs(m) \div Abs(n)
                       ELSE -(Abs(m) \div Abs(n)))

Quotient_apply(m, n) ==
    IF n = 0 THEN Outcome(<<"infy", m, n>>, "ComplexInfinity", 0)
    ELSE IntegerResult(PyFloorDiv(m, n))

----------------------------------------------------------------------------
(* The digit engine on exact integers.                                     *)

\* an optional argument: None or <<x>>
None == <<>>
Some(x) == <<x>>

Indeterminate == -1

\* int(mpmath.floor(mpmath.log(n, b))) and int(mpmath.log(n, b)), n >= 1,
\* b >= 2: the largest k with b^k <= n
RECURSIVE FloorLog(_, _)
FloorLog(n, b) == IF n < b THEN 0 ELSE 1 + FloorLog(n \div b, b)

\* int(mpmath.ceil(mpmath.log(n, b))), n >= 1, b >= 2: the least k with
\* b^k >= n
CeilLog(n, b) ==
    LET k == FloorLog(n, b) IN IF b ^ k = n THEN k ELSE k + 1

\* str(n) for a non-negative integer, one decimal digit per character
RECURSIVE str(_)
str(n) == IF n < 10 THEN <<n>> ELSE str(n \div 10) \o <<n % 10>>

\* "drop any leading zeroes": the loop over str(py_n) of apply_2
RECURSIVE drop_leading_zeroes(_, _)
drop_leading_zeroes(chars, digits) ==
    IF chars = <<>> THEN digits
    ELSE drop_leading_zeroes(Tail(chars),
            IF digits # <<>> \/ Head(chars) # 0
            THEN Append(digits, Head(chars)) ELSE digits)

\* convert_int of convert_float_base: out is kept reversed already
RECURSIVE convert_int(_, _, _, _, _)
convert_int(x, base, e, exponents, out) ==
    IF e > exponents THEN out
    ELSE LET d == x % base
             x2 == x \div base
         IN IF x2 = 0 THEN <<d>> \o out
            ELSE convert_int(x2, base, e + 1, exponents, <<d>> \o out)

\* convert_float_base on a Python integer x >= 0 (the precision is unused)
convert_float_base(x, base, precision) ==
    LET length_of_int == IF x = 0 THEN 0 ELSE FloorLog(x, base)
    IN convert_int(x, base, 0, length_of_int, <<>>)

\* "truncate all the leading 0's": at most len(digits) elements are dropped
RECURSIVE truncate_leading_zeros(_, _)
truncate_leading_zeros(digits, i) ==
    IF i = 0 \/ digits = <<>> THEN digits
    ELSE IF Head(digits) # 0 THEN digits
    ELSE truncate_leading_zeros(Tail(digits), i - 1)

\* n copies of x
Repeat(x, n) == [i \in 1..n |-> x]

\* s[:n] and s[n:] of Python for 0 <= n
Prefix(s, n) == SubSeq(s, 1, IF n < Len(s) THEN n ELSE Len(s))
Suffix(s, n) == SubSeq(s, (IF n < Len(s) THEN n ELSE Len(s)) + 1, Len(s))

\* while len(leaves) < n: leaves.append(x)
PadTo(leaves, n, x) ==
    IF Len(leaves) < n THEN leaves \o Repeat(x, n - Len(leaves)) ELSE leaves

DigitsResult(leaves, exp) ==
    [Outcome(NoMsg, "List", 0) EXCEPT !.list = leaves, !.exp = exp]

\* lines 719-734: the digits fitted to the requested number of elements
FitLength_right(leaves, nr_elements, isInteger) ==
    IF nr_elements = None THEN leaves
    ELSE IF Len(leaves) >= nr_elements[1]
         THEN Suffix(leaves, Len(leaves) - nr_elements[1])
         ELSE PadTo(leaves, nr_elements[1],
                    IF isInteger THEN 0 ELSE Indeterminate)

FitLength(leaves, nr_elements, isInteger) ==
    IF nr_elements = None THEN leaves
    ELSE IF Len(leaves) >= nr_elements[1]
         THEN Prefix(leaves, nr_elements[1])
         ELSE PadTo(leaves, nr_elements[1],
                    IF isInteger THEN 0 ELSE Indeterminate)

\* lines 673-676: the exponent of an exact integer py_n >= 0
point_exponent_nozero(py_n, py_b, nr_elements) ==
    IF py_n # 0 /\ py_n # 1 THEN CeilLog(py_n, py_b) ELSE 1

point_exponent(py_n, py_b, nr_elements) ==
    IF py_n = 0 /\ nr_elements # None THEN 0
    ELSE IF py_n # 0 /\ py_n # 1 THEN CeilLog(py_n, py_b) ELSE 1

\* lines 668-717 for an Integer n: the leaves before the final fit and the
\* exponent
integer_digits(n, py_b, nr_elements, pos) ==
    LET py_n == Abs(n)
        display_len0 ==
            IF py_n # 0 /\ py_n # 1 THEN FloorLog(py_n, py_b) ELSE 1
        exp1 == point_exponent(py_n, py_b, nr_elements)
        digits0 ==
            IF py_b # 10
            THEN LET d == convert_float_base(py_n, py_b, display_len0 - exp1)
                 IN truncate_leading_zeros(d, Len(d))
            ELSE drop_leading_zeroes(str(py_n), <<>>)
        move == exp1 - 1 - pos[1]
        shifted == pos # None
        exp == IF shifted THEN pos[1] + 1 ELSE exp1
        digits ==
            IF ~shifted THEN digits0
            ELSE IF move <= 0 THEN Repeat(0, Abs(move)) \o digits0
            ELSE Suffix(digits0, Abs(move))
        display_len ==
            IF shifted /\ move > 0 THEN display_len0 - move ELSE display_len0
    IN [leaves |-> PadTo(digits, display_len, 0), exp |-> exp]

\* lines 715-734 on the digits of an inexact value (a float, or a Rational
\* or expression after N[...]): which digits, exponent and display_len the
\* arithmetic provider yields is left open
approx_fit(digits, display_len, rational_no, exp, nr_elements) ==
    LET leaves == IF rational_no THEN digits ELSE PadTo(digits, display_len, 0)
    IN DigitsResult(FitLength(leaves, nr_elements, FALSE), exp)

\* RealDigits.apply_2 on an Integer n
apply_2(n, py_b, nr_elements, pos) ==
    IF ~(py_b > 1) THEN Outcome(<<"rbase", py_b>>, "None", 0)
    ELSE LET d == integer_digits(n, py_b, nr_elements, pos)
         IN DigitsResult(FitLength(d.leaves, nr_elements, TRUE), d.exp)

\* RealDigits.apply_3, the length an integer
apply_3(n, b, length, pos) ==
    IF ~(length >= 0)
    THEN Outcome(<<"intnm", n, b, length>> \o pos, "None", 0)
    ELSE apply_2(n, b, Some(length), pos)

\* RealDigits.apply_4, the position an integer
apply_4(n, b, length, p) == apply_3(n, b, length, Some(p))

\* RealDigits.apply on an Integer
apply(n) == apply_2(n, 10, None, None)

----------------------------------------------------------------------------
(* The digit engine on exact rationals.                                    *)

\* check_finite_decimal: the loops dividing by 5 and then by 2
RECURSIVE divide_out(_, _)
divide_out(denominator, f) ==
    IF denominator % f = 0 THEN divide_out(denominator \div f, f)
    ELSE denominator

check_finite_decimal(denominator) ==
    divide_out(divide_out(denominator, 5), 2) = 1

\* s contains x
Contains(s, x) == \E i \in 1..Len(s) : s[i] = x

\* the while loop of convert_repeating_decimal (lines 345-352)
RECURSIVE long_division(_, _, _, _, _)
long_division(numerator, denominator, base, tails, subresults) ==
    IF numerator = 0 THEN tails
    ELSE LET n1 == numerator * base
             result_digit == n1 \div denominator
             n2 == n1 % denominator
             tails2 == Append(tails, result_digit)
         IN IF ~Contains(subresults, n2)
            THEN long_division(n2, denominator, base, tails2,
                               Append(subresults, n2))
            ELSE tails2

Last(s) == s[Len(s)]
Front(s) == SubSeq(s, 1, Len(s) - 1)

\* lines 354-362: trailing head digits equal to the last tail digit are
\* rotated into the tail
RECURSIVE rotate_head(_, _)
rotate_head(head, tails) ==
    IF head = <<>> THEN <<head, tails>>
    ELSE IF Last(head) # Last(tails) THEN <<head, tails>>
    ELSE rotate_head(Front(head), <<Last(head)>> \o Front(tails))

\* lines 365-370: leading zeros of the tail are cycled to its end
RECURSIVE cycle_zeros(_, _)
cycle_zeros(tails, i) ==
    IF i = 0 THEN tails
    ELSE IF Head(tails) = 0 THEN cycle_zeros(Tail(tails) \o <<0>>, i - 1)
    ELSE tails

\* convert_repeating_decimal, numerator >= 0: <<head, tails>>
convert_repeating_decimal(numerator, denominator, base) ==
    LET head0 == str(numerator \div denominator)
        tails0 == long_division(numerator % denominator, denominator, base,
                                <<>>, <<numerator % denominator>>)
        rotated == rotate_head(head0, tails0)
        head == rotated[1]
        tails == IF \A i \in 1..Len(head) : head[i] = 0
                 THEN cycle_zeros(rotated[2], Len(rotated[2]))
                 ELSE rotated[2]
    IN <<head, tails>>

\* int(mpmath.ceil(mpmath.log(p/q, b))) for a rational p/q > 0: the least
\* integer k with b^k >= p/q
RECURSIVE CeilLogUp(_, _, _)
CeilLogUp(p, q, b) == IF q >= p THEN 0 ELSE 1 + CeilLogUp(p, q * b, b)
RECURSIVE CeilLogDown(_, _, _)
CeilLogDown(p, q, b) == IF p * b > q THEN 0 ELSE CeilLogDown(p * b, q, b) - 1
CeilLogRat(p, q, b) ==
    IF p >= q THEN CeilLogUp(p, q, b) ELSE CeilLogDown(p, q, b)

\* the elements of s other than x, in order
RECURSIVE Without(_, _)
Without(s, x) ==
    IF s = <<>> THEN <<>>
    ELSE IF Head(s) = x THEN Without(Tail(s), x)
    ELSE <<Head(s)>> \o Without(Tail(s), x)

\* line 616: the rational is sent to the plain digit path
finite_in_base(denominator, py_b) ==
    check_finite_decimal(denominator) /\ py_b % 2 = 0

\* RealDigits.apply_rational_with_base on p/q.  The plain path hands the
\* rational to apply_2, which turns it into a float with N[...]: its digits
\* are the arithmetic provider's and are not modelled (kind "apply_2").
apply_rational_with_base(p, q, py_b) ==
    IF finite_in_base(q, py_b)
    THEN [Outcome(NoMsg, "apply_2", 0) EXCEPT !.route = "apply_2"]
    ELSE LET exp == CeilLogRat(Abs(p), q, py_b)
             ht == convert_repeating_decimal(Abs(p), q, py_b)
         IN [Outcome(NoMsg, "List", 0) EXCEPT
                 !.route = "long_division",
                 !.list = Without(ht[1], 0),
                 !.tail = ht[2],
                 !.exp = exp]

\* RealDigits.apply_rational_without_base
apply_rational_without_base(p, q) == apply_rational_with_base(p, q, 10)

----------------------------------------------------------------------------
(* FactorInteger.                                                          *)

\* a dict as a function on its keys
EmptyDict == [k \in {} |-> 0]
Get(d, k, default) == IF k \in DOMAIN d THEN d[k] ELSE default
Put(d, k, v) == [x \in DOMAIN d \cup {k} |-> IF x = k THEN v ELSE d[x]]

\* trial division of n >= 1 by f, f + 1, ...
RECURSIVE trial_division(_, _, _)
trial_division(n, f, factors) ==
    IF n = 1 THEN factors
    ELSE IF n % f = 0
         THEN trial_division(n \div f, f, Put(factors, f, Get(factors, f, 0) + 1))
         ELSE trial_division(n, f + 1, factors)

\* sympy.factorint: {prime: exponent}, with {0: 1} for 0 and -1: 1 for a
\* negative n
factorint(n) ==
    IF n = 0 THEN Put(EmptyDict, 0, 1)
    ELSE IF n < 0 THEN trial_division(-n, 2, Put(EmptyDict, -1, 1))
    ELSE trial_division(n, 2, EmptyDict)

\* sorted(six.iteritems(factors)): the items in ascending order of key
RECURSIVE sorted_items(_)
sorted_items(d) ==
    IF DOMAIN d = {} THEN <<>>
    ELSE LET k == CHOOSE x \in DOMAIN d : \A y \in DOMAIN d : x <= y
         IN <<<<k, d[k]>>>> \o sorted_items([x \in DOMAIN d \ {k} |-> d[x]])

\* the exponents of the denominator added instead of subtracted
RECURSIVE merge_denominator_add(_, _)
merge_denominator_add(factors, factors_denom) ==
    IF DOMAIN factors_denom = {} THEN factors
    ELSE LET factor == CHOOSE x \in DOMAIN factors_denom : TRUE
         IN merge_denominator_add(
                Put(factors, factor,
                    Get(factors, factor, 0) + factors_denom[factor]),
                [x \in DOMAIN factors_denom \ {factor} |-> factors_denom[x]])

\* lines 272-273: factors[factor] = factors.get(factor, 0) - exp
RECURSIVE merge_denominator(_, _)
merge_denominator(factors, factors_denom) ==
    IF DOMAIN factors_denom = {} THEN factors
    ELSE LET factor == CHOOSE x \in DOMAIN factors_denom : TRUE
         IN merge_denominator(
                Put(factors, factor,
                    Get(factors, factor, 0) - factors_denom[factor]),
                [x \in DOMAIN factors_denom \ {factor} |-> factors_denom[x]])

FactorsResult(items) ==
    [Outcome(NoMsg, "List", 0) EXCEPT !.factors = items]

\* FactorInteger.apply on an Integer
FactorInteger_apply_integer(n) == FactorsResult(sorted_items(factorint(n)))

\* FactorInteger.apply on the Rational p/q
FactorInteger_apply_rational(p, q) ==
    FactorsResult(sorted_items(merge_denominator(factorint(p), factorint(q))))

\* FactorInteger.apply on anything else
FactorInteger_apply_inexact == Outcome(<<"exact">>, "None", 0)

----------------------------------------------------------------------------
(* IntegerExponent.apply: the locals of the while loop are in frame.       *)

\* Python's b ** e for e >= 0
RECURSIVE PyPower(_, _)
PyPower(b, e) == IF e = 0 THEN 1 ELSE b * PyPower(b, e - 1)

\* no call is running a loop
NoFrame == [py_n |-> 0, py_b |-> 0, result |-> 0]

\* lines 310-323: the base is reported when it is not above 1, and the
\* method goes on to the loop
IntegerExponent_enter(n, b) ==
    [msg |-> IF ~(b > 1) THEN <<"ibase", b>> ELSE NoMsg,
     frame |-> [py_n |-> Abs(n), py_b |-> b, result |-> 1]]

\* line 324: py_n % (py_b ** result) == 0, where the power is not zero
while_condition(f) == PyMod(f.py_n, PyPower(f.py_b, f.result)) = 0

\* line 327 returning result instead of result - 1
return_value_off_by_one(f) == f.result

\* line 327: from_python(result - 1)
return_value(f) == f.result - 1

\* line 325: result += 1
increment(f) ==
    [f EXCEPT !.result = IF f.result < MaxResult THEN f.result + 1
                         ELSE MaxResult]

----------------------------------------------------------------------------
(* PrimePowerQ.  The argument is Some(n) for the Integer n and None for    *)
(* anything else (get_int_value() is None).                                *)

SymbolTrue == Outcome(NoMsg, "True", 0)
SymbolFalse == Outcome(NoMsg, "False", 0)

\* lines 929-939: len(sympy.factorint(abs(n))) == 1
PrimePowerQ_apply(n) ==
    IF n = None THEN SymbolFalse
    ELSE IF Cardinality(DOMAIN factorint(Abs(n[1]))) = 1 THEN SymbolTrue
    ELSE SymbolFalse

\* the rule PrimePowerQ[1] -> False, tried before the builtin
PrimePowerQ_evaluate(n) ==
    IF n = Some(1) THEN SymbolFalse ELSE PrimePowerQ_apply(n)

----------------------------------------------------------------------------
(* NextPrime, over sympy.ntheory.nextprime and prevprime.  Numbers that    *)
(* need not be integers are held doubled (n2 = 2 * n).                     *)

\* sympy.isprime
isprime(n) == n >= 2 /\ \A d \in 2..(n - 1) : d * d > n \/ n % d # 0

\* int(n): truncation toward zero
int2(n2) == IF n2 >= 0 THEN n2 \div 2 ELSE -((-n2) \div 2)

\* int(ceiling(n))
ceiling2(n2) == PyFloorDiv(n2 + 1, 2)

\* the smallest prime above the integer n
RECURSIVE next_after(_)
next_after(n) ==
    IF n < 2 THEN 2
    ELSE IF isprime(n + 1) THEN n + 1
    ELSE next_after(n + 1)

\* the loop of nextprime for ith > 1
RECURSIVE nextprime_loop(_, _, _)
nextprime_loop(pr, j, i) ==
    IF j > i THEN pr ELSE nextprime_loop(next_after(pr), j + 1, i)

\* sympy.ntheory.nextprime(n, ith): the ith prime above n; an ith below 2
\* (zero and negative ones included) gives the first
nextprime(n2, ith) ==
    IF ith > 1 THEN nextprime_loop(int2(n2), 1, ith)
    ELSE next_after(int2(n2))

\* the largest prime below the integer n >= 3
RECURSIVE prev_before(_)
prev_before(n) == IF isprime(n - 1) THEN n - 1 ELSE prev_before(n - 1)

\* sympy.ntheory.prevprime(n): None stands for ValueError (no prime below)
prevprime(n2) ==
    IF ceiling2(n2) < 3 THEN None ELSE Some(prev_before(ceiling2(n2)))

\* line 1008 without the loop behind it: the next prime for every k
NextPrime_enter_forward(n2, k) ==
    [pc |-> "done",
     ret |-> IntegerResult(nextprime(n2, k)),
     frame |-> [result2 |-> 0, i |-> 0, py_k |-> 0]]

\* lines 1004-1011: the forward case returns; the backward case enters the
\* for loop with result = n
NextPrime_enter(n2, k) ==
    IF k >= 0
    THEN [pc |-> "done",
          ret |-> IntegerResult(nextprime(n2, k)),
          frame |-> [result2 |-> 0, i |-> 0, py_k |-> 0]]
    ELSE [pc |-> "for",
          ret |-> Outcome(NoMsg, "None", 0),
          frame |-> [result2 |-> n2, i |-> 0, py_k |-> k]]

\* lines 1012-1019: one turn of for i in range(-py_k), or the return after
\* the last one
NextPrime_iterate(f) ==
    IF f.i >= -f.py_k
    THEN [pc |-> "done", ret |-> IntegerResult(int2(f.result2)), frame |-> f]
    ELSE IF prevprime(f.result2) = None
    THEN [pc |-> "done",
          ret |-> IntegerResult(-1 * nextprime(0, f.py_k - f.i)),
          frame |-> f]
    ELSE [pc |-> "for",
          ret |-> Outcome(NoMsg, "None", 0),
          frame |-> [f EXCEPT !.result2 = 2 * prevprime(f.result2)[1],
                              !.i = f.i + 1]]

----------------------------------------------------------------------------
(* RandomPrime, over sympy.ntheory.randprime.  The values of               *)
(* random.randint are an argument: one draw per call of randprime.         *)

\* an Integer count, or None for any other expression
Counts == {None} \cup {Some(i) : i \in -1..MaxCount}

\* min and max of a non-empty list
RECURSIVE min(_)
min(l) ==
    IF Len(l) = 1 THEN l[1]
    ELSE IF Head(l) <= min(Tail(l)) THEN Head(l) ELSE min(Tail(l))

RECURSIVE max(_)
max(l) ==
    IF Len(l) = 1 THEN l[1]
    ELSE IF Head(l) >= max(Tail(l)) THEN Head(l) ELSE max(Tail(l))

\* the values random.randint(a - 1, b) can take
randint(a, b) == (a - 1)..b

\* sympy.ntheory.randprime(a, b) with the draw n: a prime in [a, b), None
\* for ValueError
randprime(a, b, n) ==
    LET p == nextprime(2 * n, 1)
        q == IF p >= b THEN prevprime(2 * b) ELSE Some(p)
    IN IF q = None THEN None
       ELSE IF q[1] < a THEN None
       ELSE q

\* [randprime(imin, imax + 1) for i in range(py_n)]: None if a call raises
RECURSIVE randprime_list(_, _, _)
randprime_list(a, b, draws) ==
    IF draws = <<>> THEN Some(<<>>)
    ELSE LET p == randprime(a, b, Head(draws))
             rest == randprime_list(a, b, Tail(draws))
         IN IF p = None \/ rest = None THEN None
            ELSE Some(<<p[1]>> \o rest[1])

\* the number of draws a call makes: range(py_n) is empty for py_n <= 0
nr_draws(n) == IF n = None THEN 0 ELSE IF n[1] >= 1 THEN n[1] ELSE 0

\* lines 1075-1103; malformed is TRUE after the prmrng message of line
\* 1087, which does not return
RandomPrime_apply(interval, n, draws) ==
    LET malformed == Len(interval) # 2
        imin == min(interval)
        imax == max(interval)
        name(plain, after) == IF malformed THEN after ELSE plain
    IN IF n = None THEN Outcome(<<"posdim">>, "None", 0)
       ELSE IF imin <= 0
       THEN Outcome(<<name("posint", "prmrng, posint"), interval[1]>>,
                    "None", 0)
       ELSE IF imax <= 0
       THEN Outcome(<<name("posint", "prmrng, posint"), interval[2]>>,
                    "None", 0)
       ELSE IF n[1] = 1
       THEN LET p == randprime(imin, imax + 1, draws[1])
            IN IF p = None
               THEN Outcome(<<name("noprime", "prmrng, noprime")>>, "None", 0)
               ELSE Outcome(IF malformed THEN <<"prmrng">> ELSE NoMsg,
                            "Integer", p[1])
       ELSE LET l == randprime_list(imin, imax + 1, draws)
            IN IF l = None
               THEN Outcome(<<name("noprime", "prmrng, noprime")>>, "None", 0)
               ELSE [Outcome(IF malformed THEN <<"prmrng">> ELSE NoMsg,
                             "List", 0) EXCEPT !.list = l[1]]

----------------------------------------------------------------------------
(* convert_repeating_decimal run one turn of its while loop at a time; the *)
(* locals are in frame.                                                    *)

\* lines 340-343: the locals before the loop
convert_enter(numerator, denominator, base) ==
    [numerator |-> numerator % denominator, denominator |-> denominator,
     base |-> base, head |-> str(numerator \div denominator),
     tails |-> <<>>, subresults |-> <<numerator % denominator>>]

\* lines 346-352 with the new remainder looked up after the first one only
long_division_turn_skipfirst(f) ==
    LET n1 == f.numerator * f.base
        result_digit == n1 \div f.denominator
        n2 == n1 % f.denominator
        tails2 == Append(f.tails, result_digit)
    IN IF ~Contains(Tail(f.subresults), n2)
       THEN [pc |-> "divide",
             frame |-> [f EXCEPT !.numerator = n2, !.tails = tails2,
                                 !.subresults = Append(f.subresults, n2)]]
       ELSE [pc |-> "rotate",
             frame |-> [f EXCEPT !.numerator = n2, !.tails = tails2]]

\* lines 346-352: one turn of the loop, which goes on or breaks
long_division_turn(f) ==
    LET n1 == f.numerator * f.base
        result_digit == n1 \div f.denominator
        n2 == n1 % f.denominator
        tails2 == Append(f.tails, result_digit)
    IN IF ~Contains(f.subresults, n2)
       THEN [pc |-> "divide",
             frame |-> [f EXCEPT !.numerator = n2, !.tails = tails2,
                                 !.subresults = Append(f.subresults, n2)]]
       ELSE [pc |-> "rotate",
             frame |-> [f EXCEPT !.numerator = n2, !.tails = tails2]]

\* lines 354-371: tails[j] on the empty tail raises IndexError (head is
\* never empty); otherwise the rotation and the cycling of zeros
convert_return(f) ==
    IF f.tails = <<>> THEN Outcome(NoMsg, "IndexError", 0)
    ELSE LET rotated == rotate_head(f.head, f.tails)
             head == rotated[1]
             tails == IF \A i \in 1..Len(head) : head[i] = 0
                      THEN cycle_zeros(rotated[2], Len(rotated[2]))
                      ELSE rotated[2]
         IN [Outcome(NoMsg, "Tuple", 0) EXCEPT !.list = head, !.tail = tails]

----------------------------------------------------------------------------
(* The state machine: one action per builtin; the host evaluates one       *)
(* expression at a time.                                                   *)

\* the evaluation of the call c ends with the outcome r
Evaluate(c, r) ==
    /\ pc' = "done"
    /\ call' = c
    /\ ret' = r
    /\ frame' = NoFrame

Init ==
    /\ pc = "idle"
    /\ call = [op |-> "none"]
    /\ ret = Outcome(NoMsg, "None", 0)
    /\ frame = NoFrame

PowerMod ==
    /\ pc = "idle"
    /\ \E a \in ModInts, b \in PowInts, m \in ModInts :
           Evaluate([op |-> "PowerMod", a |-> a, b |-> b, m |-> m],
                    PowerMod_apply(a, b, m))

Mod ==
    /\ pc = "idle"
    /\ \E n \in Ints, m \in Ints :
           Evaluate([op |-> "Mod", n |-> n, m |-> m], Mod_apply(n, m))

Quotient ==
    /\ pc = "idle"
    /\ \E m \in Ints, n \in Ints :
           Evaluate([op |-> "Quotient", m |-> m, n |-> n], Quotient_apply(m, n))

RealDigits1 ==
    /\ pc = "idle"
    /\ \E n \in Values :
           Evaluate([op |-> "RealDigits", n |-> n, b |-> 10,
                     length |-> None, pos |-> None], apply(n))

RealDigits2 ==
    /\ pc = "idle"
    /\ \E n \in Values, b \in Bases :
           Evaluate([op |-> "RealDigits", n |-> n, b |-> b,
                     length |-> None, pos |-> None], apply_2(n, b, None, None))

RealDigits3 ==
    /\ pc = "idle"
    /\ \E n \in Values, b \in Bases, length \in Lengths :
           Evaluate([op |-> "RealDigits", n |-> n, b |-> b,
                     length |-> Some(length), pos |-> None],
                    apply_3(n, b, length, None))

RealDigits4 ==
    /\ pc = "idle"
    /\ \E n \in Values, b \in Bases, length \in Lengths, p \in Positions :
           Evaluate([op |-> "RealDigits", n |-> n, b |-> b,
                     length |-> Some(length), pos |-> Some(p)],
                    apply_4(n, b, length, p))

RealDigitsRational ==
    /\ pc = "idle"
    /\ \E pq \in Rationals, b \in RatBases :
           Evaluate([op |-> "RealDigitsRational", p |-> pq[1], q |-> pq[2],
                     b |-> b],
                    apply_rational_with_base(pq[1], pq[2], b))

RealDigitsRationalDefault ==
    /\ pc = "idle"
    /\ \E pq \in Rationals :
           Evaluate([op |-> "RealDigitsRational", p |-> pq[1], q |-> pq[2],
                     b |-> 10],
                    apply_rational_without_base(pq[1], pq[2]))

\* apply_3 on an inexact value: the final padding and truncation
RealDigits3Approx ==
    /\ pc = "idle"
    /\ \E digits \in ApproxDigits, display_len \in 0..(MaxApprox + 1),
          rational_no \in BOOLEAN, exp \in -1..1, length \in 0..MaxLen :
           Evaluate([op |-> "RealDigitsApprox", digits |-> digits,
                     display_len |-> display_len, rational_no |-> rational_no,
                     length |-> Some(length)],
                    approx_fit(digits, display_len, rational_no, exp,
                               Some(length)))

FactorIntegerInteger ==
    /\ pc = "idle"
    /\ \E n \in FacInts :
           Evaluate([op |-> "FactorInteger", type |-> "Integer", p |-> n,
                     q |-> 1],
                    FactorInteger_apply_integer(n))

FactorIntegerRational ==
    /\ pc = "idle"
    /\ \E pq \in Rationals :
           Evaluate([op |-> "FactorInteger", type |-> "Rational",
                     p |-> pq[1], q |-> pq[2]],
                    FactorInteger_apply_rational(pq[1], pq[2]))

\* a machine or arbitrary-precision real: only its type matters
FactorIntegerInexact ==
    /\ pc = "idle"
    /\ Evaluate([op |-> "FactorInteger", type |-> "Real", p |-> 0, q |-> 1],
                FactorInteger_apply_inexact)

\* IntegerExponent[n, b] up to the loop
IntegerExponent2 ==
    /\ pc = "idle"
    /\ \E n \in ExpInts, b \in ExpBases :
           LET e == IntegerExponent_enter(n, b)
           IN /\ pc' = "while"
              /\ call' = [op |-> "IntegerExponent", n |-> n, b |-> b]
              /\ ret' = Outcome(e.msg, "None", 0)
              /\ frame' = e.frame

\* IntegerExponent[n], rewritten to IntegerExponent[n, 10]
IntegerExponent1 ==
    /\ pc = "idle"
    /\ \E n \in ExpInts :
           LET e == IntegerExponent_enter(n, 10)
           IN /\ pc' = "while"
              /\ call' = [op |-> "IntegerExponent", n |-> n, b |-> 10]
              /\ ret' = Outcome(e.msg, "None", 0)
              /\ frame' = e.frame

\* the test of the while loop: into the body, out to the return, or the
\* ZeroDivisionError of a modulus 0
IntegerExponentTest ==
    /\ pc = "while"
    /\ UNCHANGED call
    /\ IF PyPower(frame.py_b, frame.result) = 0
       THEN /\ pc' = "done"
            /\ ret' = Outcome(ret.msg, "ZeroDivisionError", 0)
            /\ frame' = NoFrame
       ELSE IF while_condition(frame)
       THEN /\ pc' = "body"
            /\ UNCHANGED <<ret, frame>>
       ELSE /\ pc' = "done"
            /\ ret' = Outcome(ret.msg, "Integer", return_value(frame))
            /\ frame' = NoFrame

\* the body of the while loop
IntegerExponentBody ==
    /\ pc = "body"
    /\ pc' = "while"
    /\ frame' = increment(frame)
    /\ UNCHANGED <<call, ret>>

\* PrimePowerQ[n] for an Integer n or for another expression
PrimePowerQ ==
    /\ pc = "idle"
    /\ \E n \in {None} \cup {Some(i) : i \in PrimePowerInts} :
           Evaluate([op |-> "PrimePowerQ", arg |-> n], PrimePowerQ_evaluate(n))

\* NextPrime[n, k] up to the backward loop
NextPrime2 ==
    /\ pc = "idle"
    /\ \E n2 \in TwiceNumerics, k \in Steps :
           LET e == NextPrime_enter(n2, k)
           IN /\ pc' = e.pc
              /\ call' = [op |-> "NextPrime", n2 |-> n2, k |-> k]
              /\ ret' = e.ret
              /\ frame' = IF e.pc = "done" THEN NoFrame ELSE e.frame

\* NextPrime[n], rewritten to NextPrime[n, 1]
NextPrime1 ==
    /\ pc = "idle"
    /\ \E n2 \in TwiceNumerics :
           LET e == NextPrime_enter(n2, 1)
           IN /\ pc' = e.pc
              /\ call' = [op |-> "NextPrime", n2 |-> n2, k |-> 1]
              /\ ret' = e.ret
              /\ frame' = IF e.pc = "done" THEN NoFrame ELSE e.frame

\* one turn of the backward loop
NextPrimeStep ==
    /\ pc = "for"
    /\ LET e == NextPrime_iterate(frame)
       IN /\ pc' = e.pc
          /\ ret' = e.ret
          /\ frame' = IF e.pc = "done" THEN NoFrame ELSE e.frame
    /\ UNCHANGED call

\* RandomPrime[interval, n] with the draws of the random generator
RandomPrime2 ==
    /\ pc = "idle"
    /\ \E interval \in Intervals, n \in Counts :
           \E draws \in [1..nr_draws(n) ->
                           randint(min(interval), max(interval) + 1)] :
               Evaluate([op |-> "RandomPrime", interval |-> interval,
                         count |-> n],
                        RandomPrime_apply(interval, n, draws))

\* RandomPrime[interval], rewritten to RandomPrime[interval, 1]
RandomPrime1 ==
    /\ pc = "idle"
    /\ \E interval \in Intervals :
           \E draws \in [1..1 -> randint(min(interval), max(interval) + 1)] :
               Evaluate([op |-> "RandomPrime", interval |-> interval,
                         count |-> Some(1)],
                        RandomPrime_apply(interval, Some(1), draws))

\* RandomPrime[imax], rewritten to RandomPrime[{1, imax}, 1]
RandomPrimeUpTo ==
    /\ pc = "idle"
    /\ \E imax \in 0..MaxPrimeHi :
           \E draws \in [1..1 -> randint(min(<<1, imax>>),
                                         max(<<1, imax>>) + 1)] :
               Evaluate([op |-> "RandomPrime", interval |-> <<1, imax>>,
                         count |-> Some(1)],
                        RandomPrime_apply(<<1, imax>>, Some(1), draws))

\* convert_repeating_decimal(numerator, denominator, base) up to its loop
ConvertRepeatingDecimal ==
    /\ pc = "idle"
    /\ \E numerator \in Dividends, denominator \in Divisors, base \in Radixes :
           /\ pc' = "divide"
           /\ call' = [op |-> "convert_repeating_decimal",
                       numerator |-> numerator, denominator |-> denominator,
                       base |-> base]
           /\ ret' = Outcome(NoMsg, "None", 0)
           /\ frame' = convert_enter(numerator, denominator, base)

\* the test of the while loop and, when it passes, one turn
LongDivisionStep ==
    /\ pc = "divide"
    /\ IF frame.numerator # 0
       THEN /\ pc' = long_division_turn(frame).pc
            /\ frame' = long_division_turn(frame).frame
       ELSE /\ pc' = "rotate"
            /\ UNCHANGED frame
    /\ UNCHANGED <<call, ret>>

\* the rest of convert_repeating_decimal, after the loop
ConvertReturn ==
    /\ pc = "rotate"
    /\ pc' = "done"
    /\ ret' = convert_return(frame)
    /\ frame' = NoFrame
    /\ UNCHANGED call

\* the evaluation is over; the host is ready for the next expression
NextExpression ==
    /\ pc = "done"
    /\ pc' = "idle"
    /\ call' = [op |-> "none"]
    /\ ret' = Outcome(NoMsg, "None", 0)
    /\ frame' = NoFrame

Next ==
    \/ PowerMod
    \/ Mod
    \/ Quotient
    \/ RealDigits1
    \/ RealDigits2
    \/ RealDigits3
    \/ RealDigits4
    \/ RealDigitsRational
    \/ RealDigitsRationalDefault
    \/ RealDigits3Approx
    \/ FactorIntegerInteger
    \/ FactorIntegerRational
    \/ FactorIntegerInexact
    \/ IntegerExponent2
    \/ IntegerExponent1
    \/ IntegerExponentTest
    \/ IntegerExponentBody
    \/ PrimePowerQ
    \/ NextPrime2
    \/ NextPrime1
    \/ NextPrimeStep
    \/ RandomPrime2
    \/ RandomPrime1
    \/ RandomPrimeUpTo
    \/ ConvertRepeatingDecimal
    \/ LongDivisionStep
    \/ ConvertReturn
    \/ NextExpression

Spec == Init /\ [][Next]_vars

\* a call that has started keeps running: the interpreter executes the next
\* step of a loop whenever there is one
FairSpec ==
    /\ Spec
    /\ WF_vars(IntegerExponentTest)
    /\ WF_vars(IntegerExponentBody)
    /\ WF_vars(NextPrimeStep)
    /\ WF_vars(LongDivisionStep)
    /\ WF_vars(ConvertReturn)

----------------------------------------------------------------------------
(* Arithmetic notions the properties are stated with, defined without the  *)
(* operators of the model.                                                 *)

\* d divides x
Divides(d, x) == \E k \in -Abs(x)..Abs(x) : x = k * d

\* x and y are congruent modulo m
Congruent(x, y, m) == Divides(m, x - y)

Max(x, y) == IF x >= y THEN x ELSE y

\* the greatest common divisor, gcd(0, 0) = 0
Gcd(a, b) ==
    IF a = 0 /\ b = 0 THEN 0
    ELSE CHOOSE d \in 1..Max(Abs(a), Abs(b)) :
            /\ Divides(d, a) /\ Divides(d, b)
            /\ \A e \in 1..Max(Abs(a), Abs(b)) :
                  Divides(e, a) /\ Divides(e, b) => e <= d

\* a has an inverse modulo m (m # 0)
HasInverse(a, m) == \E x \in 0..(Abs(m) - 1) : Divides(m, a * x - 1)

Called(op) == pc = "done" /\ call.op = op

----------------------------------------------------------------------------
(* C1: for all integers m and all non-zero integers n of either sign,      *)
(* Quotient(m, n) * n + Mod(m, n) equals m.                                *)
C1_QuotientModIdentity ==
    (Called("Quotient") /\ call.n # 0) =>
        LET r == Mod_apply(call.m, call.n)
        IN /\ ret.kind = "Integer" /\ ret.msg = NoMsg
           /\ r.kind = "Integer" /\ r.msg = NoMsg
           /\ ret.val * call.n + r.val = call.m

\* a negative divisor that does not divide a positive dividend
C1_Witness ==
    /\ Called("Quotient") /\ call.n < 0 /\ call.m > 0
    /\ ~Divides(call.n, call.m)
    /\ ret.kind = "Integer"

(* C2: for all integers n and all non-zero integers m, Mod(n, m) is zero   *)
(* or has the sign of m, its absolute value is less than |m|, and          *)
(* n - Mod(n, m) is divisible by m; Mod(-3, 4) = 1 and Mod(-3, -4) = -3.   *)
C2_ModSign ==
    (Called("Mod") /\ call.m # 0) =>
        /\ ret.kind = "Integer" /\ ret.msg = NoMsg
        /\ (ret.val = 0 \/ ((ret.val > 0) <=> (call.m > 0)))
        /\ Abs(ret.val) < Abs(call.m)
        /\ Divides(call.m, call.n - ret.val)
        /\ (call.n = -3 /\ call.m = 4 => ret.val = 1)
        /\ (call.n = -3 /\ call.m = -4 => ret.val = -3)

\* a negative modulus with a non-zero remainder
C2_Witness ==
    /\ Called("Mod") /\ call.m < 0 /\ call.n > 0
    /\ ret.kind = "Integer" /\ ret.val < 0

(* C3 as stated: for all integers a and m with gcd(a, m) = 1 and every     *)
(* positive b, PowerMod(a, -b, m) and PowerMod(a, b, m) both return        *)
(* integers and their product is congruent to 1 modulo m.                  *)
C3_InverseProduct_AnyModulus ==
    (Called("PowerMod") /\ call.b > 0 /\ Gcd(call.a, call.m) = 1) =>
        LET r == PowerMod_apply(call.a, -call.b, call.m)
        IN /\ ret.kind = "Integer"
           /\ r.kind = "Integer"
           /\ Congruent(ret.val * r.val, 1, call.m)

(* C3 amended: the same for every non-zero modulus m (gcd(1, 0) = 1, and   *)
(* PowerMod fails on the modulus 0).                                       *)
C3_InverseProduct ==
    (Called("PowerMod") /\ call.b > 0 /\ call.m # 0
        /\ Gcd(call.a, call.m) = 1) =>
        LET r == PowerMod_apply(call.a, -call.b, call.m)
        IN /\ ret.kind = "Integer" /\ ret.msg = NoMsg
           /\ r.kind = "Integer" /\ r.msg = NoMsg
           /\ Congruent(ret.val * r.val, 1, call.m)

\* a base coprime to the modulus that is not its own inverse
C3_Witness ==
    /\ Called("PowerMod") /\ call.b > 1 /\ call.m > 2
    /\ Gcd(call.a, call.m) = 1
    /\ ~Congruent(call.a * call.a, 1, call.m)
    /\ ret.kind = "Integer"

(* C4: the outcome of PowerMod(a, b, m) is exactly one of: the ZeroModulus *)
(* failure with no value, iff m = 0 whatever b is; the NotInvertible       *)
(* failure naming the original a and m with no value, iff m # 0, b < 0 and *)
(* a has no inverse modulo m; an integer value in every other case.        *)
C4_PowerModOutcome ==
    Called("PowerMod") =>
        LET zeroModulus == ret.kind = "None" /\ ret.msg = <<"divz", call.m>>
            notInvertible ==
                ret.kind = "None" /\ ret.msg = <<"ninv", call.a, call.m>>
            value == ret.kind = "Integer" /\ ret.msg = NoMsg
            noInverse ==
                call.m # 0 /\ call.b < 0 /\ ~HasInverse(call.a, call.m)
        IN /\ zeroModulus <=> call.m = 0
           /\ notInvertible <=> noInverse
           /\ value <=> (call.m # 0 /\ ~noInverse)
           /\ (call.a = 0 /\ call.b = -1 /\ call.m = 2 => notInvertible)
           /\ (call.a = 3 /\ call.b = -2 /\ call.m = 10 => ret.val = 9)

\* a negative exponent on a base that shares a factor with the modulus
C4_Witness ==
    /\ Called("PowerMod") /\ call.b < 0 /\ call.m # 0 /\ call.a # 0
    /\ ret.kind = "None" /\ Len(ret.msg) = 3

----------------------------------------------------------------------------
(* Notions for the digit properties.                                       *)

\* the sum of digits[i] * b^(e - i) over the digits, e the power of the
\* first one (e >= Len(digits) - 1)
RECURSIVE PlaceValue(_, _, _)
PlaceValue(digits, b, e) ==
    IF digits = <<>> THEN 0
    ELSE Head(digits) * b ^ e + PlaceValue(Tail(digits), b, e - 1)

\* floor(log_b(n)) for n >= 1, b >= 2
FloorLogOf(n, b) == CHOOSE k \in 0..n : b ^ k <= n /\ n < b ^ (k + 1)

NoLength == call.length = None /\ call.pos = None

(* C5: for every non-negative integer n and every base b >= 2, Digits(n,   *)
(* b) with no length returns (digits, exponent) such that the sum of       *)
(* digits[i] * b^(exponent - 1 - i) equals n; in particular exponent =     *)
(* floor(log_b(n)) + 1 for n >= 2, also when n is an exact power of b.     *)
(* Both sides of the sum are scaled by b^Len(digits) to stay in the        *)
(* integers.                                                               *)
C5_DigitRoundTrip ==
    (Called("RealDigits") /\ NoLength /\ call.n >= 0 /\ call.b >= 2) =>
        /\ ret.kind = "List"
        /\ ret.exp >= 0
        /\ PlaceValue(ret.list, call.b, ret.exp - 1 + Len(ret.list))
             = call.n * call.b ^ Len(ret.list)
        /\ (call.n >= 2 => ret.exp = FloorLogOf(call.n, call.b) + 1)

(* C9: for every base b >= 2, Digits(0, b) with no length returns a single *)
(* zero digit and exponent 1; Digits(0, b, length) returns exactly length  *)
(* zero digits, no indeterminate sentinel, and exponent 0.                 *)
C9_ZeroDigits ==
    (Called("RealDigits") /\ call.n = 0 /\ call.b >= 2 /\ call.pos = None
        /\ (call.length = None \/ call.length[1] >= 0)) =>
        /\ ret.kind = "List" /\ ret.msg = NoMsg
        /\ (call.length = None => ret.list = <<0>> /\ ret.exp = 1)
        /\ (call.length # None =>
                /\ Len(ret.list) = call.length[1]
                /\ \A i \in 1..Len(ret.list) : ret.list[i] = 0
                /\ ret.exp = 0)

\* zero with an explicit length in a base other than 10
C9_Witness ==
    /\ Called("RealDigits") /\ call.n = 0 /\ call.b = 7
    /\ call.length = Some(3) /\ call.pos = None
    /\ ret.list = <<0, 0, 0>>

\* the digit sequence computed before the final fit to the length
Computed ==
    IF call.op = "RealDigits"
    THEN integer_digits(call.n, call.b, call.length, call.pos).leaves
    ELSE IF call.rational_no THEN call.digits
    ELSE PadTo(call.digits, call.display_len, 0)

WithLength ==
    \/ Called("RealDigits") /\ call.b >= 2
          /\ call.length # None /\ call.length[1] >= 0
    \/ Called("RealDigitsApprox")

\* the last n elements of s
LastN(s, n) == SubSeq(s, Len(s) - n + 1, Len(s))

----------------------------------------------------------------------------
(* Notions for the properties of rationals.                                *)

\* q is 1 after every prime factor of b has been divided out of it: the
\* expansion of p/q in base b is finite
RECURSIVE FiniteExpansion(_, _)
FiniteExpansion(q, b) ==
    IF q = 1 THEN TRUE
    ELSE IF Gcd(q, b) = 1 THEN FALSE
    ELSE FiniteExpansion(q \div Gcd(q, b), b)

\* the base-b digits of the integer n >= 0, none for 0
RECURSIVE IntDigits(_, _)
IntDigits(n, b) == IF n = 0 THEN <<>> ELSE Append(IntDigits(n \div b, b), n % b)

\* the first k base-b digits of r/q after the point, 0 <= r < q
RECURSIVE FracDigits(_, _, _, _)
FracDigits(r, q, b, k) ==
    IF k = 0 THEN <<>>
    ELSE <<(r * b) \div q>> \o FracDigits((r * b) % q, q, b, k - 1)

RECURSIVE StripZeros(_)
StripZeros(s) ==
    IF s # <<>> /\ Head(s) = 0 THEN StripZeros(Tail(s)) ELSE s

\* the first k base-b digits of p/q > 0 from its leading non-zero digit
TrueDigits(p, q, b, k) ==
    SubSeq(StripZeros(IntDigits(p \div q, b)
                      \o FracDigits(p % q, q, b, k + q)), 1, k)

\* the first k digits of head followed by tail repeated indefinitely
Expand(head, tail, k) ==
    [i \in 1..k |-> IF i <= Len(head) THEN head[i]
                    ELSE tail[((i - Len(head) - 1) % Len(tail)) + 1]]

(* C7: for every reduced rational p/q and every base b >= 2, Digits treats *)
(* p/q as having a finite expansion (the plain digit path, no repeating    *)
(* tail) if and only if q becomes 1 after dividing out every prime factor  *)
(* of b; otherwise it takes the long-division path with a repeating tail.  *)
C7_FiniteRouting ==
    Called("RealDigitsRational") =>
        /\ (ret.route = "apply_2" <=> FiniteExpansion(call.q, call.b))
        /\ (ret.route = "long_division" <=> ~FiniteExpansion(call.q, call.b))
        /\ (ret.route = "apply_2" => ret.tail = <<>>)
        /\ (ret.route = "long_division" => ret.tail # <<>>)

(* C8: for every rational whose base-b expansion is infinite-periodic, the *)
(* long division splits it into a non-repeating head and a repeating tail  *)
(* that starts at the first repeated remainder: the head digits followed   *)
(* by the tail repeated indefinitely are exactly the base-b digits of      *)
(* |value| from its leading non-zero digit (19/7 gives head [2], tail      *)
(* [7,1,4,2,8,5]); no pre-period digit is in the tail and every head digit *)
(* is a base-b digit.  Compared on the head, two periods and one digit.    *)
C8_HeadTailSplit ==
    (Called("RealDigitsRational") /\ ret.route = "long_division"
        /\ ~FiniteExpansion(call.q, call.b)) =>
        LET k == Len(ret.list) + 2 * Len(ret.tail) + 1
        IN /\ ret.tail # <<>>
           /\ \A i \in 1..Len(ret.list) : ret.list[i] \in 0..(call.b - 1)
           /\ \A i \in 1..Len(ret.tail) : ret.tail[i] \in 0..(call.b - 1)
           /\ Expand(ret.list, ret.tail, k)
                = TrueDigits(Abs(call.p), call.q, call.b, k)
           /\ (call.p = 19 /\ call.q = 7 /\ call.b = 10 =>
                 ret.list = <<2>> /\ ret.tail = <<7, 1, 4, 2, 8, 5>>)

----------------------------------------------------------------------------
\* the product of prime^exponent over the pairs with a positive exponent
RECURSIVE NumeratorProduct(_)
NumeratorProduct(items) ==
    IF items = <<>> THEN 1
    ELSE (IF Head(items)[2] > 0 THEN Head(items)[1] ^ Head(items)[2] ELSE 1)
         * NumeratorProduct(Tail(items))

\* the product of prime^(-exponent) over the pairs with a negative exponent
RECURSIVE DenominatorProduct(_)
DenominatorProduct(items) ==
    IF items = <<>> THEN 1
    ELSE (IF Head(items)[2] < 0 THEN Head(items)[1] ^ (-Head(items)[2]) ELSE 1)
         * DenominatorProduct(Tail(items))

(* C10: for every positive integer n the product of prime^exponent over    *)
(* the pairs of FactorInteger(n) equals n; for every reduced rational p/q  *)
(* the same product with signed exponents (denominator primes negated)     *)
(* equals p/q; the pairs are in ascending order of prime with pairwise     *)
(* distinct primes and no zero exponent.  The rational product is compared *)
(* cross-multiplied.                                                       *)
C10_FactorRoundTrip ==
    (Called("FactorInteger") /\ call.type # "Real"
        /\ (call.type = "Integer" => call.p > 0)) =>
        /\ ret.kind = "List" /\ ret.msg = NoMsg
        /\ NumeratorProduct(ret.factors) * call.q
             = call.p * DenominatorProduct(ret.factors)
        /\ (call.type = "Integer" => \A i \in 1..Len(ret.factors) :
                                        ret.factors[i][2] > 0)
        /\ \A i \in 1..Len(ret.factors) : ret.factors[i][2] # 0
        /\ \A i \in 1..(Len(ret.factors) - 1) :
              ret.factors[i][1] < ret.factors[i + 1][1]
        /\ (call.type = "Integer" /\ call.p = 60 =>
                ret.factors = <<<<2, 2>>, <<3, 1>>, <<5, 1>>>>)

\* a rational with two primes above and a squared prime below
C10_Witness ==
    /\ Called("FactorInteger") /\ call.type = "Rational"
    /\ call.p = 10 /\ call.q = 9
    /\ ret.factors = <<<<2, 1>>, <<3, -2>>, <<5, 1>>>>

----------------------------------------------------------------------------
\* the largest e >= 0 such that b^e divides n, for n # 0 and b > 1
LargestExponent(n, b) ==
    CHOOSE e \in 0..Abs(n) : Divides(b ^ e, n) /\ ~Divides(b ^ (e + 1), n)

\* IntegerExponent is between its first loop test and its return
InLoop == pc \in {"while", "body"} /\ call.op = "IntegerExponent"

(* C11: for every non-zero integer n of either sign and every base b > 1   *)
(* (10 when the base is omitted), IntegerExponent(n, b) terminates, and    *)
(* what it returns is the largest e >= 0 such that b^e divides |n|, with   *)
(* no message; while it runs, result is at most one above that exponent.   *)
C11_LargestExponent ==
    /\ [](Called("IntegerExponent") /\ call.n # 0 /\ call.b > 1 =>
            /\ ret.kind = "Integer" /\ ret.msg = NoMsg
            /\ ret.val = LargestExponent(call.n, call.b)
            /\ (call.n = 16 /\ call.b = 2 => ret.val = 4))
    /\ [](InLoop /\ call.n # 0 /\ call.b > 1 =>
            frame.result <= LargestExponent(call.n, call.b) + 1)
    /\ ((InLoop /\ call.n # 0 /\ call.b > 1) ~> Called("IntegerExponent"))

\* a negative n with a cube of the base in it
C11_Witness ==
    /\ Called("IntegerExponent") /\ call.n = -24 /\ call.b = 2
    /\ ret.val = 3

(* C12: for every base b > 1, IntegerExponent(0, b) terminates: the call   *)
(* that has reached its loop comes to its end.                             *)
C12_ZeroTerminates ==
    (InLoop /\ call.n = 0 /\ call.b > 1) ~> Called("IntegerExponent")

(* C13: for every integer n and every base b <= 1, IntegerExponent(n, b)   *)
(* fails with the ibase message at once: the loop body is never run, and   *)
(* the call ends with the message and no value (nor any other failure).    *)
C13_InvalidBaseOnly ==
    (call.op = "IntegerExponent" /\ call.b <= 1) =>
        /\ pc # "body"
        /\ (pc = "done" =>
                ret.msg = <<"ibase", call.b>> /\ ret.kind = "None")

----------------------------------------------------------------------------
\* p is a prime number
IsPrime(p) == p > 1 /\ \A d \in 2..(p - 1) : ~Divides(d, p)

\* the primes up to limit that divide m (every prime divides 0)
PrimeDivisors(m, limit) == {p \in 2..limit : IsPrime(p) /\ Divides(p, m)}

(* C14: for every integer n, PrimePowerQ(n) is True exactly when |n| has   *)
(* one distinct prime factor, so it is False for 1, -1 and 0; an argument  *)
(* that is not an integer gives False and no message.                      *)
C14_PrimePowerQ ==
    Called("PrimePowerQ") =>
        /\ ret.msg = NoMsg
        /\ ret.kind \in {"True", "False"}
        /\ (call.arg = None => ret.kind = "False")
        /\ (call.arg # None =>
              (ret.kind = "True" <=>
                 Cardinality(PrimeDivisors(Abs(call.arg[1]),
                                           MaxPrimePower + 1)) = 1))
        /\ (call.arg \in {Some(1), Some(-1), Some(0)} => ret.kind = "False")

----------------------------------------------------------------------------
\* the primes strictly below n2 / 2
PrimesBelow(n2) == {p \in 2..MaxPrimeN : IsPrime(p) /\ 2 * p < n2}

\* the j-th largest element of the set S of integers
NthLargest(S, j) == CHOOSE p \in S : Cardinality({q \in S : q >= p}) = j

(* C15: for every n and every k < 0, NextPrime(n, k) walks back one prime  *)
(* per turn: with at least |k| primes strictly below n it returns the      *)
(* |k|-th of them counted downward; with only i < |k| of them it returns   *)
(* -nextprime(0, k - i), which is -2; the loop makes at most |k| turns and *)
(* the call ends.                                                          *)
C15_BackwardWalk ==
    /\ [](Called("NextPrime") /\ call.k < 0 =>
            LET below == PrimesBelow(call.n2)
                i == Cardinality(below)
            IN /\ ret.kind = "Integer" /\ ret.msg = NoMsg
               /\ (i >= -call.k => ret.val = NthLargest(below, -call.k))
               /\ (i < -call.k =>
                      ret.val = -nextprime(0, call.k - i) /\ ret.val = -2)
               /\ (call.n2 = 20 /\ call.k = -5 => ret.val = -2))
    /\ [](pc = "for" =>
            /\ frame.i <= -call.k
            /\ frame.i <= Cardinality(PrimesBelow(call.n2)))
    /\ (pc = "for" ~> Called("NextPrime"))

\* five primes back from 30
C15_Witness ==
    /\ Called("NextPrime") /\ call.n2 = 60 /\ call.k = -5
    /\ ret.val = 13

----------------------------------------------------------------------------
\* the primes in [lo, hi]
PrimesIn(lo, hi) == {p \in lo..hi : IsPrime(p)}

(* C16: for every interval of two positive integers, in either order, and  *)
(* every integer count n: when no prime lies between the smaller and the   *)
(* larger end (both included) RandomPrime fails with the noprime message   *)
(* and returns nothing; otherwise, whatever the generator draws, n = 1     *)
(* gives one prime of the interval and n > 1 a list of n such primes.      *)
C16_RandomPrime ==
    (/\ Called("RandomPrime") /\ Len(call.interval) = 2
     /\ call.interval[1] > 0 /\ call.interval[2] > 0
     /\ call.count # None) =>
        LET lo == IF call.interval[1] <= call.interval[2]
                  THEN call.interval[1] ELSE call.interval[2]
            hi == IF call.interval[1] <= call.interval[2]
                  THEN call.interval[2] ELSE call.interval[1]
            n == call.count[1]
        IN IF PrimesIn(lo, hi) = {}
           THEN ret.msg = <<"noprime">> /\ ret.kind = "None"
           ELSE /\ ret.msg = NoMsg
                /\ (n = 1 => ret.kind = "Integer"
                                /\ ret.val \in PrimesIn(lo, hi))
                /\ (n > 1 => /\ ret.kind = "List"
                             /\ Len(ret.list) = n
                             /\ \A i \in 1..n : ret.list[i] \in PrimesIn(lo, hi))

----------------------------------------------------------------------------
\* the elements of the sequence s are pairwise different
Distinct(s) == \A i \in 1..Len(s), j \in 1..Len(s) : s[i] = s[j] => i = j

\* convert_repeating_decimal is in or just after its while loop
InDivision == pc \in {"divide", "rotate"}

(* C17: for every numerator >= 0, denominator >= 1 and base >= 2 the long  *)
(* division loop of convert_repeating_decimal terminates.  While it runs   *)
(* the remainders met so far are pairwise different, all non-zero but      *)
(* possibly the current one, and one digit has been emitted per turn; it   *)
(* is left with a remainder that is zero or was met before; at most        *)
(* `denominator` digits are emitted, each in [0, base).                    *)
C17_LongDivisionTerminates ==
    /\ [](InDivision =>
            /\ Len(frame.tails) <= call.denominator
            /\ \A i \in 1..Len(frame.tails) :
                  frame.tails[i] \in 0..(call.base - 1))
    /\ [](pc = "divide" =>
            /\ Distinct(frame.subresults)
            /\ Len(frame.subresults) = Len(frame.tails) + 1
            /\ Last(frame.subresults) = frame.numerator
            /\ \A i \in 1..(Len(frame.subresults) - 1) :
                  frame.subresults[i] # 0)
    /\ [](pc = "rotate" =>
            /\ frame.numerator = 0 \/ Contains(frame.subresults, frame.numerator)
            /\ frame.tails = long_division(
                   call.numerator % call.denominator, call.denominator,
                   call.base, <<>>, <<call.numerator % call.denominator>>))
    /\ (pc = "divide" ~> pc = "rotate")

\* 5/7 in base 10 has left the loop with six digits, at the remainder 5
\* it started from
C17_Witness ==
    /\ pc = "rotate" /\ call.numerator = 5 /\ call.denominator = 7
    /\ call.base = 10
    /\ frame.tails = <<7, 1, 4, 2, 8, 5>> /\ frame.numerator = 5

====
